---- MODULE Spec2Model ----
(***************************************************************************)
(* Model of src/app.py: the ADMET & Docking Prioritizer script.            *)
(*                                                                         *)
(* One behaviour is one run of the script: input selection and parsing     *)
(* (lines 81-98), the Analyze button (line 103), the required-column       *)
(* check (105-106), the per-row loop (111-160), ranking (162-170) and the  *)
(* rendering of table, gallery, charts, metrics and download (172-222),    *)
(* with the top-level handler of lines 224-225.                            *)
(*                                                                         *)
(* Encoding of Python values:                                              *)
(*   None / float NaN / the '-' placeholder   the empty tuple <<>>         *)
(*   a number x                               the 1-tuple <<x>>            *)
(*   MW, LogP                                 integers, in thousandths     *)
(*   Docking_Score                            integers, in tenths          *)
(* A SMILES cell is a string; NaNCell stands for a missing cell, which     *)
(* pandas.read_csv delivers as float NaN and not as a str.                 *)
(***************************************************************************)
EXTENDS Integers, Sequences, FiniteSets, TLC

\* Largest number of data rows of an input table.
MaxRows == 3

None == <<>>
NaN == <<>>
Dash == <<>>
Some(x) == <<x>>
IsSet(x) == Len(x) = 1
Val(x) == x[1]

----------------------------------------------------------------------------
(* The RDKit collaborator.  Chem.MolFromSmiles returns None for a string   *)
(* it cannot interpret and raises for a non-str argument; Descriptors.*    *)
(* are functions of the molecule.                                          *)

NaNCell == "NaN"

\* MolWt, MolLogP (thousandths), NumHDonors, NumHAcceptors of the molecules
\* the model's tables are made of.
MolLibrary ==
  [ mol_plain  |-> [mw |-> 310250, logp |-> 2500, hd |-> 5, ha |-> 3],
    mol_edge   |-> [mw |-> 500004, logp |-> 4996, hd |-> 2, ha |-> 10],
    mol_heavy  |-> [mw |-> 620500, logp |-> 5004, hd |-> 3, ha |-> 4],
    mol_worst  |-> [mw |-> 811990, logp |-> 7310, hd |-> 6, ha |-> 11] ]

ValidSmiles == DOMAIN MolLibrary
SmilesCells == ValidSmiles \cup {"InvalidSMILES", NaNCell}
ScoreCells == {Some(-75), Some(-72), NaN}

\* Chem.MolFromSmiles on a str: the molecule, or None.
MolFromSmiles(smiles) ==
  IF smiles \in ValidSmiles THEN Some(smiles) ELSE None

MolWt(mol) == MolLibrary[Val(mol)].mw
MolLogP(mol) == MolLibrary[Val(mol)].logp
NumHDonors(mol) == MolLibrary[Val(mol)].hd
NumHAcceptors(mol) == MolLibrary[Val(mol)].ha

----------------------------------------------------------------------------
(* Per-record evaluation, lines 112-160.                                   *)

B2I(b) == IF b THEN 1 ELSE 0

\* Mutant of Violations: the donor rule counted from 5 on.
Violations_NonStrict(mw, logp, h_donors, h_acceptors) ==
  B2I(mw > 500000) + B2I(logp > 5000) + B2I(h_donors >= 5)
    + B2I(h_acceptors > 10)

\* Lines 134-139; thresholds 500, 5, 5, 10 (MW and LogP in thousandths).
Violations(mw, logp, h_donors, h_acceptors) ==
  B2I(mw > 500000) + B2I(logp > 5000) + B2I(h_donors > 5)
    + B2I(h_acceptors > 10)

\* Line 142.
AdmetPrediction(logp, h_donors) ==
  IF logp < 5000 /\ h_donors <= 5 THEN "Good" ELSE "Moderate"

\* Lines 144-145.
StatusOf(violations) ==
  IF violations <= 1 THEN "Pass" ELSE "Fail (Lipinski Violation)"

\* round(x, 2) of a value given in thousandths, result in thousandths;
\* Python rounds a tie to the even neighbour.
Round2(x) ==
  LET q == x \div 10
      r == x % 10
  IN  10 * (IF r < 5 THEN q
            ELSE IF r > 5 THEN q + 1
            ELSE IF q % 2 = 0 THEN q ELSE q + 1)

\* Mutant of InvalidRecord: a count of 0 instead of None.
InvalidRecord_ZeroViolations(smiles, docking_score) ==
  [ SMILES |-> smiles, Docking_Score |-> docking_score,
    Status |-> "Invalid SMILES",
    MW |-> None, LogP |-> None, HDonors |-> None, HAcceptors |-> None,
    Violations |-> Some(0), ADMET_Predict |-> None ]

\* Lines 117-123.
InvalidRecord(smiles, docking_score) ==
  [ SMILES |-> smiles, Docking_Score |-> docking_score,
    Status |-> "Invalid SMILES",
    MW |-> None, LogP |-> None, HDonors |-> None, HAcceptors |-> None,
    Violations |-> None, ADMET_Predict |-> None ]

\* Mutant of ValidRecord: the donor and acceptor counts stored in each
\* other's column.
ValidRecord_SwappedCounts(smiles, docking_score, mol) ==
  LET mw == MolWt(mol)
      logp == MolLogP(mol)
      h_donors == NumHDonors(mol)
      h_acceptors == NumHAcceptors(mol)
      violations == Violations(mw, logp, h_donors, h_acceptors)
  IN  [ SMILES |-> smiles, Docking_Score |-> docking_score,
        Status |-> StatusOf(violations),
        MW |-> Some(Round2(mw)), LogP |-> Some(Round2(logp)),
        HDonors |-> Some(h_acceptors), HAcceptors |-> Some(h_donors),
        Violations |-> Some(violations),
        ADMET_Predict |-> Some(AdmetPrediction(logp, h_donors)) ]

\* Lines 128-157.
ValidRecord(smiles, docking_score, mol) ==
  LET mw == MolWt(mol)
      logp == MolLogP(mol)
      h_donors == NumHDonors(mol)
      h_acceptors == NumHAcceptors(mol)
      violations == Violations(mw, logp, h_donors, h_acceptors)
  IN  [ SMILES |-> smiles, Docking_Score |-> docking_score,
        Status |-> StatusOf(violations),
        MW |-> Some(Round2(mw)), LogP |-> Some(Round2(logp)),
        HDonors |-> Some(h_donors), HAcceptors |-> Some(h_acceptors),
        Violations |-> Some(violations),
        ADMET_Predict |-> Some(AdmetPrediction(logp, h_donors)) ]

\* Line 160: the depiction of a molecule; src is the row it was drawn for.
MolToImage(mol, src) == Some([mol |-> Val(mol), src |-> src])

----------------------------------------------------------------------------
(* Ranking, lines 162-170.  A frame is a sequence of rows; each row keeps  *)
(* its pandas index label (the position of its record in results) in the   *)
(* field index until reset_index(drop=True) drops it.                      *)

\* Line 162: pd.DataFrame(results), RangeIndex labels.
DataFrame(recs) ==
  [k \in 1..Len(recs) |-> recs[k] @@ [index |-> k]]

IsPass(row) == row.Status = "Pass"
IsNotPass(row) == row.Status # "Pass"

\* Line 165: boolean-mask selection keeps the rows' order.
DfPass(df) == SelectSeq(df, IsPass)

IsFail(row) == row.Status = "Fail (Lipinski Violation)"

\* Mutant of DfFail: only the rows whose Status says Fail.
DfFail_OnlyFail(df) == SelectSeq(df, IsFail)

\* Line 166.
DfFail(df) == SelectSeq(df, IsNotPass)

Orders(n) ==
  {p \in [1..n -> 1..n] : \A a, b \in 1..n : a # b => p[a] # p[b]}

\* Score a sorts strictly before score b: ascending, NaN last.
Precedes(a, b) == IsSet(a) /\ (~IsSet(b) \/ Val(a) < Val(b))

\* Line 167: sort_values(by='Docking_Score', ascending=True) with the
\* default kind='quicksort' and na_position='last'.  The sort is not
\* stable: rows of equal score come out in any order.  The NaN rows are
\* appended behind the sorted ones in their original order.
SortValues(df) ==
  LET n == Len(df)
      Arrange(p) == [k \in 1..n |-> df[p[k]]]
      Sorted(s) ==
        \A a, b \in 1..n : a < b =>
          /\ ~Precedes(s[b].Docking_Score, s[a].Docking_Score)
          /\ (~IsSet(s[a].Docking_Score) /\ ~IsSet(s[b].Docking_Score))
               => s[a].index < s[b].index
  IN  {s \in {Arrange(p) : p \in Orders(n)} : Sorted(s)}

\* Mutant of RankPass: range(len(df_pass)).
RankPass_FromZero(df) ==
  [k \in 1..Len(df) |-> df[k] @@ [Final_Rank |-> Some(k - 1)]]

\* Line 168: Final_Rank = range(1, len(df_pass) + 1).
RankPass(df) ==
  [k \in 1..Len(df) |-> df[k] @@ [Final_Rank |-> Some(k)]]

\* Line 169: Final_Rank = '-'.
RankFail(df) ==
  [k \in 1..Len(df) |-> df[k] @@ [Final_Rank |-> Dash]]

\* Mutant of Concat: pd.concat([df_fail, df_pass]).
Concat_FailFirst(df_pass, df_fail) == df_fail \o df_pass

\* Line 170: pd.concat([df_pass, df_fail]).
Concat(df_pass, df_fail) == df_pass \o df_fail

\* Line 170: reset_index(drop=True).
ResetIndex(df) ==
  [k \in 1..Len(df) |-> [f \in (DOMAIN df[k]) \ {"index"} |-> df[k][f]]]

\* The index labels reset_index drops, in the frame's order.
IndexOf(df) == [k \in 1..Len(df) |-> df[k].index]

----------------------------------------------------------------------------
(* Input tables, lines 81-98.                                              *)

RequiredColumns == {"SMILES", "Docking_Score"}

\* The header rows the model's tables have.
ColumnSets ==
  { {"SMILES", "Docking_Score"}, {"SMILES"}, {"Docking_Score"},
    {"smiles", "docking_score"} }

SeqsUpTo(S, n) == UNION {[1..k -> S] : k \in 0..n}

\* The rows a table with header cols can have.
RowsOf(cols) ==
  IF cols = {"SMILES", "Docking_Score"}
    THEN [SMILES : SmilesCells, Docking_Score : ScoreCells]
  ELSE IF cols = {"SMILES"} THEN [SMILES : SmilesCells]
  ELSE IF cols = {"Docking_Score"} THEN [Docking_Score : ScoreCells]
  ELSE [smiles : {"mol_plain"}, docking_score : {Some(-72)}]

\* Mutant of MissingRequiredColumn: only the SMILES column is looked for.
MissingRequiredColumn_OnlySmiles(columns) == "SMILES" \notin columns

\* Line 105.
MissingRequiredColumn(columns) ==
  "SMILES" \notin columns \/ "Docking_Score" \notin columns

----------------------------------------------------------------------------
(* State.                                                                  *)

VARIABLES
  pc,        \* position of the script
  df_input,  \* None, or Some([columns, rows])
  i,         \* the row the loop of line 111 is at
  results,   \* line 109
  images,    \* line 110
  df_final,  \* None until line 170 has run
  origin,    \* history: the index labels line 170 drops from df_final
  shown,     \* the elements the run has put on the page
  gallery,   \* the st.image calls of line 187: image and caption
  error      \* None, or the exception raised: where, and whether it
             \* reached the handler of line 224

vars ==
  <<pc, df_input, i, results, images, df_final, origin, shown, gallery, error>>

Init ==
  /\ pc = "input"
  /\ df_input = None
  /\ i = 0
  /\ results = <<>>
  /\ images = <<>>
  /\ df_final = None
  /\ origin = <<>>
  /\ shown = {}
  /\ gallery = <<>>
  /\ error = None

Rows == Val(df_input).rows
Columns == Val(df_input).columns

\* Lines 224-225: an exception raised inside the try block.
Except(where) ==
  /\ error' = Some([where |-> where, handled |-> TRUE])
  /\ shown' = shown \cup {"exception_error"}
  /\ pc' = "done"

\* An exception raised outside the try block ends the script; Streamlit
\* prints it, the handler of line 224 does not run.
Uncaught(where) ==
  /\ error' = Some([where |-> where, handled |-> FALSE])
  /\ pc' = "crashed"

\* Lines 81-83.  EXAMPLE_DATA has both columns, str SMILES and numeric
\* scores; what RDKit makes of its rows is not fixed by the source, so the
\* table is any such table.
UseExampleData ==
  /\ pc = "input"
  /\ \E rows \in SeqsUpTo([SMILES : SmilesCells \ {NaNCell},
                           Docking_Score : ScoreCells \ {NaN}], MaxRows) :
       /\ rows # <<>>
       /\ df_input' = Some([columns |-> RequiredColumns, rows |-> rows])
  /\ pc' = "button"
  /\ UNCHANGED <<i, results, images, df_final, origin, shown, gallery, error>>

\* Lines 85-91: pd.read_csv of the pasted text parses it or raises.
PasteCustomData ==
  /\ pc = "input"
  /\ \/ /\ \E cols \in ColumnSets : \E rows \in SeqsUpTo(RowsOf(cols), MaxRows) :
             df_input' = Some([columns |-> cols, rows |-> rows])
        /\ pc' = "button"
        /\ UNCHANGED error
     \/ /\ Uncaught("read_csv")
        /\ UNCHANGED df_input
  /\ UNCHANGED <<i, results, images, df_final, origin, shown, gallery>>

\* Lines 93-98: no file yet, or pd.read_csv of the file parses it or raises.
UploadCSVFile ==
  /\ pc = "input"
  /\ \/ /\ df_input' = None
        /\ pc' = "button"
        /\ UNCHANGED error
     \/ /\ \E cols \in ColumnSets : \E rows \in SeqsUpTo(RowsOf(cols), MaxRows) :
             df_input' = Some([columns |-> cols, rows |-> rows])
        /\ pc' = "button"
        /\ UNCHANGED error
     \/ /\ Uncaught("read_csv")
        /\ UNCHANGED df_input
  /\ UNCHANGED <<i, results, images, df_final, origin, shown, gallery>>

\* Lines 103, 227-228: the button is not pressed, or there is no table.
NoAnalysis ==
  /\ pc = "button"
  /\ shown' = shown \cup {"info"}
  /\ pc' = "done"
  /\ UNCHANGED <<df_input, i, results, images, df_final, origin, gallery, error>>

\* Line 103: the button is pressed and there is a table.
Analyze ==
  /\ pc = "button"
  /\ df_input # None
  /\ pc' = "check"
  /\ UNCHANGED <<df_input, i, results, images, df_final, origin, shown, gallery, error>>

\* Lines 105-110.
CheckColumns ==
  /\ pc = "check"
  /\ IF MissingRequiredColumn(Columns)
       THEN /\ shown' = shown \cup {"schema_error"}
            /\ pc' = "done"
            /\ UNCHANGED <<i, results, images>>
       ELSE /\ results' = <<>>
            /\ images' = <<>>
            /\ i' = 1
            /\ pc' = "loop"
            /\ UNCHANGED shown
  /\ UNCHANGED <<df_input, df_final, origin, gallery, error>>

\* Lines 111-160: one iteration of the loop.
EvaluateRow ==
  /\ pc = "loop"
  /\ i <= Len(Rows)
  /\ IF ~(RequiredColumns \subseteq DOMAIN Rows[i])
       THEN /\ Except("row")
            /\ UNCHANGED <<i, results, images>>
     ELSE IF Rows[i].SMILES = NaNCell
       THEN /\ Except("MolFromSmiles")
            /\ UNCHANGED <<i, results, images>>
     ELSE LET smiles == Rows[i].SMILES
              docking_score == Rows[i].Docking_Score
              mol == MolFromSmiles(smiles)
          IN  /\ IF mol = None
                   THEN /\ results' = Append(results, InvalidRecord(smiles, docking_score))
                        /\ images' = Append(images, None)
                   ELSE /\ results' = Append(results, ValidRecord(smiles, docking_score, mol))
                        /\ images' = Append(images, MolToImage(mol, i))
              /\ i' = i + 1
              /\ UNCHANGED <<pc, shown, error>>
  /\ UNCHANGED <<df_input, df_final, origin, gallery>>

\* Lines 162-170.  A DataFrame of no records has no Status column, and
\* line 165 raises KeyError.
Rank ==
  /\ pc = "loop"
  /\ i > Len(Rows)
  /\ IF results = <<>>
       THEN /\ Except("rank")
            /\ UNCHANGED <<df_final, origin>>
       ELSE LET df_results == DataFrame(results)
            IN  \E df_pass \in SortValues(DfPass(df_results)) :
                  LET merged == Concat(RankPass(df_pass), RankFail(DfFail(df_results)))
                  IN  /\ df_final' = Some(ResetIndex(merged))
                      /\ origin' = IndexOf(merged)
                      /\ pc' = "table"
                      /\ UNCHANGED <<shown, error>>
  /\ UNCHANGED <<df_input, i, results, images, gallery>>

\* Lines 172-179.
RenderTable ==
  /\ pc = "table"
  /\ \/ /\ shown' = shown \cup {"success", "table"}
        /\ pc' = "gallery"
        /\ UNCHANGED error
     \/ Except("table")
  /\ UNCHANGED <<df_input, i, results, images, df_final, origin, gallery>>

\* Line 187: the caption of the image at position k of images.
Caption(k) ==
  [ SMILES |-> Val(df_final)[k].SMILES,
    Docking_Score |-> Val(df_final)[k].Docking_Score ]

ImagePositions == {k \in 1..Len(images) : images[k] # None}

\* The gallery of lines 185-187, in the order of the calls.
GalleryItems ==
  LET Item(k) == [image |-> Val(images[k]), caption |-> Caption(k)]
      RECURSIVE Build(_)
      Build(k) ==
        IF k = 0 THEN <<>>
        ELSE IF k \in ImagePositions THEN Append(Build(k - 1), Item(k))
        ELSE Build(k - 1)
  IN  Build(Len(images))

\* Lines 184-187.
RenderGallery ==
  /\ pc = "gallery"
  /\ \/ /\ gallery' = GalleryItems
        /\ shown' = shown \cup {"gallery"}
        /\ pc' = "charts"
        /\ UNCHANGED error
     \/ /\ Except("gallery")
        /\ UNCHANGED gallery
  /\ UNCHANGED <<df_input, i, results, images, df_final, origin>>

\* Lines 192-207.
RenderCharts ==
  /\ pc = "charts"
  /\ \/ /\ shown' = shown \cup {"charts"}
        /\ pc' = "metrics"
        /\ UNCHANGED error
     \/ Except("charts")
  /\ UNCHANGED <<df_input, i, results, images, df_final, origin, gallery>>

\* Lines 212-216.
RenderMetrics ==
  /\ pc = "metrics"
  /\ \/ /\ shown' = shown \cup {"metrics"}
        /\ pc' = "download"
        /\ UNCHANGED error
     \/ Except("metrics")
  /\ UNCHANGED <<df_input, i, results, images, df_final, origin, gallery>>

\* Lines 221-222.
RenderDownload ==
  /\ pc = "download"
  /\ \/ /\ shown' = shown \cup {"download"}
        /\ pc' = "done"
        /\ UNCHANGED error
     \/ Except("download")
  /\ UNCHANGED <<df_input, i, results, images, df_final, origin, gallery>>

Next ==
  \/ UseExampleData
  \/ PasteCustomData
  \/ UploadCSVFile
  \/ NoAnalysis
  \/ Analyze
  \/ CheckColumns
  \/ EvaluateRow
  \/ Rank
  \/ RenderTable
  \/ RenderGallery
  \/ RenderCharts
  \/ RenderMetrics
  \/ RenderDownload

Spec == Init /\ [][Next]_vars

----------------------------------------------------------------------------
(* Properties.                                                             *)

Ranked == df_final # None
Final == Val(df_final)
FinalPositions == 1..Len(Final)
PassPositions == {k \in FinalPositions : Final[k].Status = "Pass"}
OtherPositions == FinalPositions \ PassPositions
Reordered == \E k \in DOMAIN origin : origin[k] # k

\* C1: once the final table exists it has exactly one row per input row:
\* the rows' origins are the input positions, each once, and every row
\* carries the SMILES and Docking_Score of the input row it comes from.
C1_OneRowPerInputRow ==
  Ranked =>
    /\ Len(Final) = Len(Rows)
    /\ Len(origin) = Len(Rows)
    /\ \A n \in 1..Len(Rows) :
         Cardinality({k \in FinalPositions : origin[k] = n}) = 1
    /\ \A k \in FinalPositions :
         /\ Final[k].SMILES = Rows[origin[k]].SMILES
         /\ Final[k].Docking_Score = Rows[origin[k]].Docking_Score

C1_Witness ==
  /\ pc = "done"
  /\ error = None
  /\ Ranked
  /\ Len(Final) = MaxRows
  /\ Reordered
  /\ PassPositions # {}
  /\ OtherPositions # {}

\* IEEE comparison of two scores: false when either is NaN.
ScoreLeq(a, b) == IsSet(a) /\ IsSet(b) /\ Val(a) <= Val(b)

RanksAreOneToK ==
  /\ \A k \in PassPositions : IsSet(Final[k].Final_Rank)
  /\ \A r \in 1..Cardinality(PassPositions) :
       Cardinality({k \in PassPositions : Final[k].Final_Rank = Some(r)}) = 1

\* C2 as stated: the ranks of the Pass records are 1..K, each once, and a
\* smaller rank implies a docking score that is less or equal.
C2_Original ==
  Ranked =>
    /\ RanksAreOneToK
    /\ \A a, b \in PassPositions :
         Val(Final[a].Final_Rank) < Val(Final[b].Final_Rank)
           => ScoreLeq(Final[a].Docking_Score, Final[b].Docking_Score)

\* C2 amended: the ranks of the Pass records are 1..K, each once; among
\* Pass records that have a docking score a smaller rank implies a score
\* that is less or equal, and the Pass records whose score is missing (NaN)
\* take the last ranks.
C2_RanksOrderedWithMissingLast ==
  Ranked =>
    /\ RanksAreOneToK
    /\ \A a, b \in PassPositions :
         Val(Final[a].Final_Rank) < Val(Final[b].Final_Rank) =>
           /\ (IsSet(Final[a].Docking_Score) /\ IsSet(Final[b].Docking_Score))
                => Val(Final[a].Docking_Score) <= Val(Final[b].Docking_Score)
           /\ ~IsSet(Final[a].Docking_Score) => ~IsSet(Final[b].Docking_Score)

C2_Witness ==
  /\ Ranked
  /\ Cardinality(PassPositions) = MaxRows
  /\ Reordered
  /\ \E a, b \in PassPositions :
       /\ ~IsSet(Final[a].Docking_Score)
       /\ IsSet(Final[b].Docking_Score)
  /\ \E a, b \in PassPositions :
       /\ IsSet(Final[a].Docking_Score)
       /\ IsSet(Final[b].Docking_Score)
       /\ Val(Final[a].Docking_Score) < Val(Final[b].Docking_Score)

\* C3: the sort of the Pass partition is stable: of two Pass records with
\* equal docking score the one earlier in the input has the smaller rank
\* and stands earlier in the final table.
C3_StableSort ==
  Ranked =>
    \A a, b \in PassPositions :
      ( /\ IsSet(Final[a].Docking_Score)
        /\ Final[a].Docking_Score = Final[b].Docking_Score
        /\ origin[a] < origin[b] )
      => (a < b /\ Val(Final[a].Final_Rank) < Val(Final[b].Final_Rank))

\* C4: in the final table every record that is not Pass has the '-'
\* placeholder as Final_Rank, stands after every Pass record, and the
\* records that are not Pass are in the order they had in the input.
C4_NonPassUnrankedLastInInputOrder ==
  Ranked =>
    /\ \A k \in OtherPositions :
         /\ Final[k].Final_Rank = Dash
         /\ \A j \in PassPositions : j < k
    /\ \A j, k \in OtherPositions : j < k => origin[j] < origin[k]

C4_Witness ==
  /\ Ranked
  /\ PassPositions # {}
  /\ \E j, k \in OtherPositions :
       /\ j < k
       /\ Final[j].Status = "Invalid SMILES"
       /\ Final[k].Status = "Fail (Lipinski Violation)"
  /\ \E j \in OtherPositions : \E k \in PassPositions : origin[j] < origin[k]

\* The rules a molecule with these descriptors breaches.
Breaches(d) ==
  {rule \in {"MW", "LogP", "HDonors", "HAcceptors"} :
     \/ rule = "MW" /\ d.mw > 500000
     \/ rule = "LogP" /\ d.logp > 5000
     \/ rule = "HDonors" /\ d.hd > 5
     \/ rule = "HAcceptors" /\ d.ha > 10}

Interpretable(smiles) == smiles \in DOMAIN MolLibrary

\* C5: for every record whose structure is interpretable, Violations is a
\* number from 0 to 4, the number of the four rules the molecule's
\* descriptors breach, and Status is Pass iff that number is at most 1,
\* otherwise Fail.
C5_ViolationCountAndClassification ==
  \A k \in 1..Len(results) :
    Interpretable(results[k].SMILES) =>
      LET n == Cardinality(Breaches(MolLibrary[results[k].SMILES]))
      IN  /\ results[k].Violations = Some(n)
          /\ n \in 0..4
          /\ (results[k].Status = "Pass") <=> (n <= 1)
          /\ (results[k].Status = "Fail (Lipinski Violation)") <=> (n > 1)

C5_Witness ==
  /\ Len(results) = MaxRows
  /\ \E k \in 1..Len(results) : results[k].Violations = Some(0)
  /\ \E k \in 1..Len(results) : results[k].Violations = Some(1)
  /\ \E k \in 1..Len(results) :
       IsSet(results[k].Violations) /\ Val(results[k].Violations) >= 2

DerivedFields ==
  {"MW", "LogP", "HDonors", "HAcceptors", "Violations", "ADMET_Predict"}

ResultElements ==
  {"success", "table", "gallery", "charts", "metrics", "download"}

LacksRequiredColumn ==
  /\ df_input # None
  /\ ~({"SMILES", "Docking_Score"} \subseteq Columns)

\* C7: for a table that lacks the SMILES or the Docking_Score column no row
\* is ever processed, no evaluated record exists, none of success, table,
\* gallery, charts, counts and export is shown, and the run in which the
\* button was pressed ends with the schema error reported.
C7_SchemaErrorBeforeProcessing ==
  LacksRequiredColumn =>
    /\ i = 0
    /\ results = <<>>
    /\ images = <<>>
    /\ df_final = None
    /\ gallery = <<>>
    /\ shown \cap ResultElements = {}
    /\ pc \notin {"loop", "table", "gallery", "charts", "metrics", "download"}
    /\ (pc = "done" /\ "info" \notin shown) =>
         (shown = {"schema_error"} /\ error = None)

C7_Witness ==
  /\ LacksRequiredColumn
  /\ Columns = {"SMILES"}
  /\ Len(Rows) = MaxRows
  /\ pc = "done"
  /\ "schema_error" \in shown

\* C8: any exception raised while an input is processed reaches the
\* top-level handler and is reported, and in that run none of table,
\* gallery, charts, counts and download has been shown.
C8_EveryExceptionHandledNothingShown ==
  error # None =>
    /\ Val(error).handled
    /\ "exception_error" \in shown
    /\ shown \cap {"table", "gallery", "charts", "metrics", "download"} = {}

\* C9: every image of the gallery is captioned with the SMILES and the
\* Docking_Score of the record the image was drawn from.
C9_CaptionMatchesImage ==
  \A k \in 1..Len(gallery) :
    /\ gallery[k].caption.SMILES = gallery[k].image.mol
    /\ gallery[k].caption.Docking_Score = Rows[gallery[k].image.src].Docking_Score

\* The violations counted from the values a row reports.
ReportedBreaches(row) ==
  B2I(Val(row.MW) > 500000) + B2I(Val(row.LogP) > 5000)
    + B2I(Val(row.HDonors) > 5) + B2I(Val(row.HAcceptors) > 10)

ReportedGood(row) == Val(row.LogP) < 5000 /\ Val(row.HDonors) <= 5

AgreesWithReported(row) ==
  /\ row.Violations = Some(ReportedBreaches(row))
  /\ (row.Status = "Pass") <=> (ReportedBreaches(row) <= 1)
  /\ (row.ADMET_Predict = Some("Good")) <=> ReportedGood(row)

\* C10 as stated: for every interpretable record of the final table, the
\* breaches recounted from the reported MW, LogP, HDonors and HAcceptors
\* give the reported Violations and Status, and ADMET_Predict is Good iff
\* the reported LogP < 5 and the reported HDonors <= 5.
C10_Original ==
  Ranked =>
    \A k \in FinalPositions :
      Final[k].Status # "Invalid SMILES" => AgreesWithReported(Final[k])

\* C10 amended: the same, for every interpretable record whose reported
\* (rounded) MW is not 500.00 and whose reported LogP is not 5.00.
C10_AgreesAwayFromThresholds ==
  Ranked =>
    \A k \in FinalPositions :
      ( /\ Final[k].Status # "Invalid SMILES"
        /\ Final[k].MW # Some(500000)
        /\ Final[k].LogP # Some(5000) )
      => AgreesWithReported(Final[k])

C10_Witness ==
  /\ Ranked
  /\ \E k \in FinalPositions :
       /\ Final[k].Status = "Pass"
       /\ Final[k].MW # Some(500000)
       /\ Final[k].LogP # Some(5000)
       /\ Final[k].ADMET_Predict = Some("Good")
  /\ \E k \in FinalPositions :
       /\ Final[k].Status = "Fail (Lipinski Violation)"
       /\ Final[k].MW # Some(500000)
       /\ Final[k].LogP # Some(5000)
       /\ Final[k].Violations = Some(4)
  /\ \E k \in FinalPositions : Final[k].MW = Some(500000)

====
